---- MODULE Spec2Model ----
(***************************************************************************)
(* Web Print Portal (src/App.tsx): the copies stepper (CustomNumberInput), *)
(* the file selector (PrintForm), the submission flow (handleSubmit) and   *)
(* the auto-dismiss effect of AppContent, as one state machine.            *)
(*                                                                         *)
(* Texts that the code parses or formats (the copies field, the value of   *)
(* FormData's "copies") are sequences of one-character strings; messages   *)
(* that are only compared are TLA+ strings.                                *)
(***************************************************************************)
EXTENDS Integers, Sequences, FiniteSets

(* ------------------------------ bounds --------------------------------- *)
\* longest text typed into the copies field
MaxLen == 2
\* largest magnitude the stepper is driven to
MaxCount == 3
\* number of submit events in a behaviour
MaxSubmits == 2
\* largest magnitude the stepper is driven to on its own (StepperSpec)
MaxStep == 11
\* number of file events kept in fileTrace
MaxTrace == 3
\* granularity of the passage of time, in ms
TickMs == 2500

(* ------------------------- program constants --------------------------- *)
\* CustomNumberInput props as PrintForm passes them (App.tsx:269)
min == 1
defaultValue == 1
\* setTimeout delay of the auto-dismiss effect (App.tsx:292)
DismissMs == 5000

\* characters a user types into the copies field: a sign, digits, a letter
Chars == {"-", "0", "1", "x"}
Digits == {"0", "1", "2", "3", "4", "5", "6", "7", "8", "9"}
Files == {"a.pdf", "b.pdf"}
\* HTTP statuses the webhook answers with
HttpStatuses == {200, 298, 299, 300, 500}
\* response bodies
BodyTexts == {"", "printer offline"}

TypedTexts == UNION {[1..n -> Chars] : n \in 0..MaxLen}

(* --------------------- JavaScript number <-> text ---------------------- *)
DigitVal(c) ==
  CASE c = "0" -> 0 [] c = "1" -> 1 [] c = "2" -> 2 [] c = "3" -> 3
    [] c = "4" -> 4 [] c = "5" -> 5 [] c = "6" -> 6 [] c = "7" -> 7
    [] c = "8" -> 8 [] c = "9" -> 9

DigitChar(d) ==
  CASE d = 0 -> "0" [] d = 1 -> "1" [] d = 2 -> "2" [] d = 3 -> "3"
    [] d = 4 -> "4" [] d = 5 -> "5" [] d = 6 -> "6" [] d = 7 -> "7"
    [] d = 8 -> "8" [] d = 9 -> "9"

\* a JavaScript value of the stepper's state: a number, NaN, or a string
Num(k) == [t |-> "num", n |-> k, s |-> <<>>]
NaN == [t |-> "nan", n |-> 0, s |-> <<>>]
Str(txt) == [t |-> "str", n |-> 0, s |-> txt]

\* length of the longest prefix of s made of digits
RECURSIVE DigitPrefixLen(_)
DigitPrefixLen(s) ==
  IF s = <<>> \/ Head(s) \notin Digits THEN 0 ELSE 1 + DigitPrefixLen(Tail(s))

\* value of a non-empty sequence of digits
RECURSIVE DigitsValue(_)
DigitsValue(s) ==
  IF s = <<>> THEN 0
  ELSE DigitsValue(SubSeq(s, 1, Len(s) - 1)) * 10 + DigitVal(s[Len(s)])

\* parseInt(value, 10): an optional sign, then the longest run of digits;
\* NaN when there is no digit.  Anything after the digits is ignored.
parseInt(s) ==
  LET neg == s # <<>> /\ Head(s) = "-"
      body == IF neg THEN Tail(s) ELSE s
      k == DigitPrefixLen(body)
      v == DigitsValue(SubSeq(body, 1, k))
  IN IF k = 0 THEN NaN ELSE Num(IF neg THEN 0 - v ELSE v)

\* Number(string): the whole string must be a decimal integer; '' is 0
ToNumber(v) ==
  IF v.t # "str" THEN v
  ELSE IF v.s = <<>> THEN Num(0)
  ELSE LET neg == Head(v.s) = "-"
           body == IF neg THEN Tail(v.s) ELSE v.s
       IN IF body # <<>> /\ DigitPrefixLen(body) = Len(body)
            THEN Num(IF neg THEN 0 - DigitsValue(body) ELSE DigitsValue(body))
            ELSE NaN

RECURSIVE NatToText(_)
NatToText(k) ==
  IF k < 10 THEN <<DigitChar(k)>>
  ELSE NatToText(k \div 10) \o <<DigitChar(k % 10)>>

\* String(value): the text React writes into the controlled input
JsString(v) ==
  CASE v.t = "str" -> v.s
    [] v.t = "nan" -> <<"N", "a", "N">>
    [] v.t = "num" -> IF v.n < 0 THEN <<"-">> \o NatToText(0 - v.n)
                      ELSE NatToText(v.n)

\* a + b of JavaScript with b a number: concatenation when a is a string
JsAdd(a, k) ==
  CASE a.t = "str" -> Str(a.s \o NatToText(k))
    [] a.t = "nan" -> NaN
    [] a.t = "num" -> Num(a.n + k)

\* a - b of JavaScript with b a number: a is converted to a number
JsSub(a, k) ==
  LET x == ToNumber(a) IN IF x.t = "nan" THEN NaN ELSE Num(x.n - k)

\* Math.max(m, a) with m a number
MathMax(m, a) ==
  LET x == ToNumber(a)
  IN IF x.t = "nan" THEN NaN ELSE Num(IF x.n > m THEN x.n ELSE m)

\* a < m of JavaScript with m a number (false when a converts to NaN)
JsLess(a, m) ==
  LET x == ToNumber(a) IN x.t = "num" /\ x.n < m

\* |value| as far as the model drives the stepper
Magnitude(v) ==
  LET x == ToNumber(v)
  IN IF x.t = "nan" THEN 0 ELSE IF x.n < 0 THEN 0 - x.n ELSE x.n

(* ------------------------------- state --------------------------------- *)
VARIABLES
  apiKey,       \* import.meta.env.VITE_PRINT_API_KEY ("" when not set)
  webhookUrl,   \* import.meta.env.VITE_PRINT_WEBHOOK_URL ("" when not set)
  count,        \* CustomNumberInput's state
  fileInput,    \* name of the file held by the <input type="file">, "" if none
  fileName,     \* PrintForm's state
  status,       \* AppContent's status
  isLoading,    \* AppContent's isLoading
  calls,        \* running handleSubmit invocations: [id, pc, formData, net]
  timers,       \* pending setTimeout timers: [id, remaining]
  effectTimer,  \* id of the timer the last effect run armed, 0 if none
  timerSeq,     \* number of timers armed so far
  statusAge,    \* ms since status was last set
  nSubmits,     \* submit events handled
  nValidated,   \* submit events that passed the configuration check
  nRequests,    \* calls of fetch
  lastOutcome,  \* how the last handleSubmit ended, pending while it runs
  lastStatus,   \* HTTP status of the response it ended on, 0 if none
  lastOp,       \* the stepper event handled last (recorded by StepperSpec)
  before,       \* the stepper's state before that event
  incRun,       \* increments since the state was the number min, else -1
  fileTrace     \* the last file events, oldest first (recorded by FileSpec)

vars == <<apiKey, webhookUrl, count, fileInput, fileName, status, isLoading,
          calls, timers, effectTimer, timerSeq, statusAge,
          nSubmits, nValidated, nRequests, lastOutcome, lastStatus,
          lastOp, before, incRun, fileTrace>>

cfgVars == <<apiKey, webhookUrl>>
stepperVars == <<count>>
fileVars == <<fileInput, fileName>>
statusVars == <<status, timers, effectTimer, timerSeq, statusAge>>
flowVars == <<isLoading, calls>>
histVars == <<nSubmits, nValidated, nRequests, lastOutcome, lastStatus>>
traceVars == <<lastOp, before, incRun, fileTrace>>

Null == "<null>"
NoStatus == [message |-> "", type |-> "none"]
\* the fetch has not settled yet
NetPending == [kind |-> "pending", status |-> 0, body |-> "", read |-> "no"]
\* the fetch will reject (network failure, DNS failure, abort)
NetError == [kind |-> "error", status |-> 0, body |-> "", read |-> "no"]

MsgConfig == "Error: Missing configuration. Please check your .env.local file."
MsgInfo == "Uploading and sending to printer..."
MsgSuccess == "Success! Print job sent."
MsgFallback == "Could not send print job."
MsgNetwork == "Error: An unexpected network error occurred."

Init ==
  /\ apiKey \in {"", "secret"}
  /\ webhookUrl \in {"", "https://hook"}
  /\ count = Num(defaultValue)
  /\ fileInput = ""
  /\ fileName = Null
  /\ status = NoStatus
  /\ isLoading = FALSE
  /\ calls = {}
  /\ timers = {}
  /\ effectTimer = 0
  /\ timerSeq = 0
  /\ statusAge = 0
  /\ nSubmits = 0
  /\ nValidated = 0
  /\ nRequests = 0
  /\ lastOutcome = "none"
  /\ lastStatus = 0
  /\ lastOp = "none"
  /\ before = Num(defaultValue)
  /\ incRun = 0
  /\ fileTrace = <<>>

(* ------------------------- CustomNumberInput --------------------------- *)
\* a decrement that does not clamp
decrementedNoClamp(prev) == JsSub(prev, 1)

\* setCount(prev => Math.max(min, prev - 1))
decremented(prev) == MathMax(min, JsSub(prev, 1))

\* an increment that stops at 9
incrementedCapped(prev) ==
  IF prev.t = "num" /\ prev.n >= 9 THEN prev ELSE JsAdd(prev, 1)

\* setCount(prev => prev + 1)
incremented(prev) == JsAdd(prev, 1)

handleDecrement ==
  /\ count' = decremented(count)
  /\ UNCHANGED <<cfgVars, traceVars, fileVars, statusVars, flowVars, histVars>>

handleIncrement ==
  /\ Magnitude(incremented(count)) <= MaxCount
  /\ count' = incremented(count)
  /\ UNCHANGED <<cfgVars, traceVars, fileVars, statusVars, flowVars, histVars>>

\* the state after the field's text becomes value
changed(prev, value) ==
  IF value = <<>> THEN Str(<<>>)
  ELSE LET numValue == parseInt(value)
       IN IF numValue.t # "nan" THEN numValue ELSE prev

handleInputChange ==
  \E value \in TypedTexts :
    /\ Magnitude(changed(count, value)) <= MaxCount
    /\ count' = changed(count, value)
    /\ UNCHANGED <<cfgVars, traceVars, fileVars, statusVars, flowVars, histVars>>

\* a blur that coerces the empty field only
blurredEmptyOnly(prev) == IF prev = Str(<<>>) THEN Num(min) ELSE prev

\* count === '' || count < min
blurred(prev) ==
  IF prev = Str(<<>>) \/ JsLess(prev, min) THEN Num(min) ELSE prev

handleInputBlur ==
  /\ count' = blurred(count)
  /\ UNCHANGED <<cfgVars, traceVars, fileVars, statusVars, flowVars, histVars>>

\* the text of the controlled <input name="copies" value={count}>
copiesField == JsString(count)

(* ----------------------------- PrintForm ------------------------------- *)
\* setFileName of handleFileChange for a change event that carries files
selected(files) == IF Len(files) > 0 THEN files[1] ELSE Null

\* a "Remove file" that clears the name and leaves the input as it is
clearedInputKept(held) == held

\* fileInputRef.current.value = '' on an input that holds file held
clearedInput(held) == ""

\* the user picks file f in the file dialog: the browser fires the change
\* event only when the input did not hold f already
pickFile(f) ==
  IF f = fileInput THEN UNCHANGED fileVars
  ELSE /\ fileInput' = f
       /\ fileName' = selected(<<f>>)

\* the file dialog leaves the input empty: a change event with zero files
pickNone ==
  /\ fileInput' = ""
  /\ fileName' = selected(<<>>)

\* the "Remove file" button exists only while fileName is set
removeFile ==
  /\ fileName # Null
  /\ fileInput' = clearedInput(fileInput)
  /\ fileName' = Null

handleFileChange ==
  \E f \in Files :
    /\ pickFile(f)
    /\ UNCHANGED <<cfgVars, traceVars, stepperVars, statusVars, flowVars,
                   histVars>>

handleFileChangeEmpty ==
  /\ pickNone
  /\ UNCHANGED <<cfgVars, traceVars, stepperVars, statusVars, flowVars,
                 histVars>>

handleRemoveFile ==
  /\ removeFile
  /\ UNCHANGED <<cfgVars, traceVars, stepperVars, statusVars, flowVars,
                 histVars>>

(* ------------- the form's inputs on their own, with history ------------ *)
\* incRun after an event that was not an increment
runAfter(value) == IF value = Num(min) THEN 0 ELSE 0 - 1

stepperFrame ==
  UNCHANGED <<cfgVars, fileVars, statusVars, flowVars, histVars, fileTrace>>

stepDecrement ==
  /\ count' = decremented(count)
  /\ lastOp' = "decrement"
  /\ before' = count
  /\ incRun' = runAfter(count')
  /\ stepperFrame

stepIncrement ==
  /\ Magnitude(incremented(count)) <= MaxStep
  /\ count' = incremented(count)
  /\ lastOp' = "increment"
  /\ before' = count
  /\ incRun' = IF incRun >= 0 THEN incRun + 1 ELSE runAfter(count')
  /\ stepperFrame

stepInputChange ==
  \E value \in TypedTexts :
    /\ Magnitude(changed(count, value)) <= MaxStep
    /\ count' = changed(count, value)
    /\ lastOp' = "change"
    /\ before' = count
    /\ incRun' = runAfter(count')
    /\ stepperFrame

stepInputBlur ==
  /\ count' = blurred(count)
  /\ lastOp' = "blur"
  /\ before' = count
  /\ incRun' = runAfter(count')
  /\ stepperFrame

StepperNext ==
  \/ stepDecrement
  \/ stepIncrement
  \/ stepInputChange
  \/ stepInputBlur

StepperSpec == Init /\ [][StepperNext]_vars

\* trace with event e appended, cut to its last MaxTrace events
traced(trace, e) ==
  LET all == Append(trace, e)
  IN IF Len(all) > MaxTrace THEN Tail(all) ELSE all

fileFrame ==
  UNCHANGED <<cfgVars, stepperVars, statusVars, flowVars, histVars, lastOp,
              before, incRun>>

filePick ==
  \E f \in Files :
    /\ pickFile(f)
    /\ fileTrace' = traced(fileTrace, f)
    /\ fileFrame

filePickNone ==
  /\ pickNone
  /\ fileTrace' = traced(fileTrace, "cancel")
  /\ fileFrame

fileRemove ==
  /\ removeFile
  /\ fileTrace' = traced(fileTrace, "remove")
  /\ fileFrame

FileNext ==
  \/ filePick
  \/ filePickNone
  \/ fileRemove

FileSpec == Init /\ [][FileNext]_vars

(* --------------------- status and auto-dismiss ------------------------- *)
\* an effect that arms the timer for every status
TerminalAny(st) == TRUE

\* an effect that arms the timer for a success only
TerminalSuccessOnly(st) == st.type = "success"

\* status.type === 'success' || status.type === 'error'
Terminal(st) == st.type = "success" \/ st.type = "error"

\* an effect that returns no cleanup
cleanupNone(pending, handle) == pending

\* the effect's cleanup: clearTimeout of the timer that effect run armed
cleanup(pending, handle) == {t \in pending : t.id # handle}

\* setStatus(st) with the timers in pending still to fire, and the run of
\* the [status] effect that the re-render brings: the cleanup of the previous
\* run, then a new 5000 ms timer when st is a success or an error
setStatus(st, pending) ==
  LET cleaned == cleanup(pending, effectTimer)
  IN /\ status' = st
     /\ statusAge' = 0
     /\ IF Terminal(st)
          THEN /\ timers' = cleaned \cup
                              {[id |-> timerSeq + 1, remaining |-> DismissMs]}
               /\ effectTimer' = timerSeq + 1
               /\ timerSeq' = timerSeq + 1
          ELSE /\ timers' = cleaned
               /\ effectTimer' = 0
               /\ timerSeq' = timerSeq

\* a timer fires: setStatus(null).  React skips the re-render, and with it
\* the effect, when the status is null already.
timerFire ==
  \E t \in timers :
    /\ t.remaining = 0
    /\ IF status = NoStatus
         THEN /\ timers' = timers \ {t}
              /\ UNCHANGED <<status, effectTimer, timerSeq, statusAge>>
         ELSE setStatus(NoStatus, timers \ {t})
    /\ UNCHANGED <<cfgVars, traceVars, stepperVars, fileVars, flowVars, histVars>>

Least(S) == CHOOSE x \in S : \A y \in S : x <= y

\* time passes, by TickMs or up to the next timer's expiry: a due timer
\* fires (or is cleared) before the clock moves on
Tick ==
  /\ \A t \in timers : t.remaining > 0
  /\ LET d == Least({TickMs} \cup {t.remaining : t \in timers})
     IN /\ timers' = {[t EXCEPT !.remaining = @ - d] : t \in timers}
        /\ statusAge' = IF status = NoStatus THEN 0
                        ELSE Least({statusAge + d, DismissMs})
  /\ UNCHANGED <<status, effectTimer, timerSeq>>
  /\ UNCHANGED <<cfgVars, traceVars, stepperVars, fileVars, flowVars, histVars>>

(* ---------------------------- handleSubmit ----------------------------- *)
\* a submit button that is never disabled
submitAlways == TRUE

\* <button type="submit" disabled={isLoading}>
submitEnabled == ~isLoading

\* both inputs are `required`: the browser submits the form only when a
\* file is selected and the copies field is not empty
formValid == fileInput # "" /\ copiesField # <<>>

\* new FormData(form)
newFormData == [copies |-> copiesField, file |-> fileInput]

\* a check that forgets the webhook URL
configMissingKeyOnly == apiKey = ""

\* !apiKey || !webhookUrl
configMissing == apiKey = "" \/ webhookUrl = ""

\* a submit event: handleSubmit up to its return or its first await
handleSubmit ==
  /\ submitEnabled
  /\ formValid
  /\ nSubmits < MaxSubmits
  /\ nSubmits' = nSubmits + 1
  /\ IF configMissing
       THEN /\ setStatus([message |-> MsgConfig, type |-> "error"], timers)
            /\ lastOutcome' = "config"
            /\ lastStatus' = 0
            /\ UNCHANGED <<isLoading, calls, nValidated, nRequests>>
       ELSE /\ isLoading' = TRUE
            /\ setStatus([message |-> MsgInfo, type |-> "info"], timers)
            /\ calls' = calls \cup {[id |-> nRequests + 1, pc |-> "awaitFetch",
                                     formData |-> newFormData,
                                     net |-> NetPending]}
            /\ nValidated' = nValidated + 1
            /\ nRequests' = nRequests + 1
            /\ lastOutcome' = "pending"
            /\ lastStatus' = 0
  /\ UNCHANGED <<cfgVars, traceVars, stepperVars, fileVars>>

\* the webhook's response arrives: fetch settles on its status line and
\* headers, the body is still to be read
netRespond ==
  \E c \in calls, st \in HttpStatuses :
    /\ c.pc = "awaitFetch"
    /\ c.net.kind = "pending"
    /\ calls' = (calls \ {c}) \cup
         {[c EXCEPT !.net = [kind |-> "response", status |-> st, body |-> "",
                             read |-> "no"]]}
    /\ UNCHANGED <<cfgVars, traceVars, stepperVars, fileVars, statusVars, isLoading,
                   histVars>>

\* the pending request fails in transport
netFail ==
  \E c \in calls :
    /\ c.pc = "awaitFetch"
    /\ c.net.kind = "pending"
    /\ calls' = (calls \ {c}) \cup {[c EXCEPT !.net = NetError]}
    /\ UNCHANGED <<cfgVars, traceVars, stepperVars, fileVars, statusVars, isLoading,
                   histVars>>

\* the body that response.text() waits for arrives as text b
netBody ==
  \E c \in calls, b \in BodyTexts :
    /\ c.pc = "awaitText"
    /\ c.net.read = "no"
    /\ calls' = (calls \ {c}) \cup
         {[c EXCEPT !.net.body = b, !.net.read = "done"]}
    /\ UNCHANGED <<cfgVars, traceVars, stepperVars, fileVars, statusVars, isLoading,
                   histVars>>

\* reading the body fails: response.text() will reject
netBodyFail ==
  \E c \in calls :
    /\ c.pc = "awaitText"
    /\ c.net.read = "no"
    /\ calls' = (calls \ {c}) \cup {[c EXCEPT !.net.read = "failed"]}
    /\ UNCHANGED <<cfgVars, traceVars, stepperVars, fileVars, statusVars, isLoading,
                   histVars>>

\* a success test over the half-open range [200,299)
okHalfOpen(response) == 200 <= response.status /\ response.status < 299

\* response.ok
ok(response) == 200 <= response.status /\ response.status <= 299

\* a catch block that shows the thrown error's own message
catchLeaksError(c, outcome) ==
  /\ setStatus([message |-> "Error: Failed to fetch", type |-> "error"],
               timers)
  /\ isLoading' = FALSE
  /\ calls' = calls \ {c}
  /\ lastOutcome' = outcome
  /\ lastStatus' = c.net.status
  /\ UNCHANGED <<cfgVars, traceVars, stepperVars, fileVars, nSubmits,
                 nValidated, nRequests>>

\* a catch block with no finally after it
catchNoFinally(c, outcome) ==
  /\ setStatus([message |-> MsgNetwork, type |-> "error"], timers)
  /\ calls' = calls \ {c}
  /\ lastOutcome' = outcome
  /\ lastStatus' = c.net.status
  /\ UNCHANGED <<cfgVars, traceVars, stepperVars, fileVars, isLoading, nSubmits,
                 nValidated, nRequests>>

\* the catch block and the finally block
catchFinally(c, outcome) ==
  /\ setStatus([message |-> MsgNetwork, type |-> "error"], timers)
  /\ isLoading' = FALSE
  /\ calls' = calls \ {c}
  /\ lastOutcome' = outcome
  /\ lastStatus' = c.net.status
  /\ UNCHANGED <<cfgVars, traceVars, stepperVars, fileVars, nSubmits, nValidated,
                 nRequests>>

\* a success branch that clears the name and leaves the file input alone
succeededKeepsInput(c) ==
  /\ setStatus([message |-> MsgSuccess, type |-> "success"], timers)
  /\ fileName' = Null
  /\ isLoading' = FALSE
  /\ calls' = calls \ {c}
  /\ lastOutcome' = "ok"
  /\ lastStatus' = c.net.status
  /\ UNCHANGED <<cfgVars, traceVars, stepperVars, fileInput, nSubmits,
                 nValidated, nRequests>>

\* a success branch with no finally after it
succeededNoFinally(c) ==
  /\ setStatus([message |-> MsgSuccess, type |-> "success"], timers)
  /\ fileInput' = ""
  /\ fileName' = Null
  /\ calls' = calls \ {c}
  /\ lastOutcome' = "ok"
  /\ lastStatus' = c.net.status
  /\ UNCHANGED <<cfgVars, traceVars, stepperVars, isLoading, nSubmits,
                 nValidated, nRequests>>

\* a success branch that does not call the resetFileName hook
succeededNoHook(c) ==
  /\ setStatus([message |-> MsgSuccess, type |-> "success"], timers)
  /\ fileInput' = ""
  /\ isLoading' = FALSE
  /\ calls' = calls \ {c}
  /\ lastOutcome' = "ok"
  /\ lastStatus' = c.net.status
  /\ UNCHANGED <<cfgVars, traceVars, stepperVars, fileName, nSubmits, nValidated,
                 nRequests>>

\* the success branch and the finally block.  form.reset() empties the file
\* input; it does not reach CustomNumberInput's state, from which React
\* renders the controlled copies field.
succeeded(c) ==
  /\ setStatus([message |-> MsgSuccess, type |-> "success"], timers)
  /\ fileInput' = ""
  /\ fileName' = Null
  /\ isLoading' = FALSE
  /\ calls' = calls \ {c}
  /\ lastOutcome' = "ok"
  /\ lastStatus' = c.net.status
  /\ UNCHANGED <<cfgVars, traceVars, stepperVars, nSubmits, nValidated, nRequests>>

\* handleSubmit resumes after `await fetch(...)`
fetchSettled ==
  \E c \in calls :
    /\ c.pc = "awaitFetch"
    /\ c.net.kind # "pending"
    /\ IF c.net.kind = "error" THEN catchFinally(c, "fetchThrow")
       ELSE IF ok(c.net) THEN succeeded(c)
       ELSE /\ calls' = (calls \ {c}) \cup {[c EXCEPT !.pc = "awaitText"]}
            /\ UNCHANGED <<cfgVars, traceVars, stepperVars, fileVars, statusVars,
                           isLoading, histVars>>

\* a message that ignores the response body
errorMessageFallback(errorText) == "Error: " \o MsgFallback

\* `Error: ${errorText || 'Could not send print job.'}`
errorMessage(errorText) ==
  "Error: " \o (IF errorText # "" THEN errorText ELSE MsgFallback)

\* a non-ok branch that resets the form as the success branch does
rejectedResets(c) ==
  /\ setStatus([message |-> errorMessage(c.net.body), type |-> "error"],
               timers)
  /\ fileInput' = ""
  /\ fileName' = Null
  /\ isLoading' = FALSE
  /\ calls' = calls \ {c}
  /\ lastOutcome' = "rejected"
  /\ lastStatus' = c.net.status
  /\ UNCHANGED <<cfgVars, traceVars, stepperVars, nSubmits, nValidated,
                 nRequests>>

\* a non-ok branch that sends the request again
rejectedRetry(c) ==
  /\ setStatus([message |-> errorMessage(c.net.body), type |-> "error"],
               timers)
  /\ isLoading' = FALSE
  /\ calls' = (calls \ {c}) \cup
       {[id |-> nRequests + 1, pc |-> "awaitFetch", formData |-> c.formData,
         net |-> NetPending]}
  /\ nRequests' = nRequests + 1
  /\ lastOutcome' = "rejected"
  /\ lastStatus' = c.net.status
  /\ UNCHANGED <<cfgVars, traceVars, stepperVars, fileVars, nSubmits, nValidated>>

\* the non-ok branch after the body was read, and the finally block
rejected(c) ==
  /\ setStatus([message |-> errorMessage(c.net.body), type |-> "error"],
               timers)
  /\ isLoading' = FALSE
  /\ calls' = calls \ {c}
  /\ lastOutcome' = "rejected"
  /\ lastStatus' = c.net.status
  /\ UNCHANGED <<cfgVars, traceVars, stepperVars, fileVars, nSubmits, nValidated,
                 nRequests>>

\* handleSubmit resumes after `await response.text()`
textSettled ==
  \E c \in calls :
    /\ c.pc = "awaitText"
    /\ c.net.read # "no"
    /\ IF c.net.read = "done" THEN rejected(c)
       ELSE catchFinally(c, "textThrow")

(* --------------------------- specification ----------------------------- *)
Next ==
  \/ handleDecrement
  \/ handleIncrement
  \/ handleInputChange
  \/ handleInputBlur
  \/ handleFileChange
  \/ handleFileChangeEmpty
  \/ handleRemoveFile
  \/ handleSubmit
  \/ netRespond
  \/ netFail
  \/ netBody
  \/ netBodyFail
  \/ fetchSettled
  \/ textSettled
  \/ timerFire
  \/ Tick

Spec == Init /\ [][Next]_vars

\* the network settles every request, resumed handlers and due timers run
FairSpec ==
  /\ Spec
  /\ WF_vars(netRespond \/ netFail)
  /\ WF_vars(netBody \/ netBodyFail)
  /\ WF_vars(fetchSettled)
  /\ WF_vars(textSettled)
  /\ WF_vars(timerFire)
  /\ WF_vars(Tick)

TypeOK ==
  /\ count.t \in {"num", "str", "nan"}
  /\ fileInput \in Files \cup {""}
  /\ fileName \in Files \cup {Null}
  /\ status.type \in {"none", "info", "success", "error"}
  /\ isLoading \in BOOLEAN
  /\ \A c \in calls : c.pc \in {"awaitFetch", "awaitText"}
  /\ statusAge \in 0..DismissMs

(* ------------------------------ claims --------------------------------- *)
\* handleSubmit is about to run its success branch for call c
Succeeds(c) == c.pc = "awaitFetch" /\ c.net.kind = "response" /\ ok(c.net)

\* C1: at most one request of the form is in flight at any time, and while
\* one is in flight the submit affordance is disabled, so that a second
\* submit dispatches nothing.
C1_OneInFlight ==
  /\ Cardinality(calls) <= 1
  /\ calls # {} => isLoading

\* a request is in flight while the form is complete and another submit
\* event is still within the bound
C1_Witness == calls # {} /\ formValid /\ nSubmits < MaxSubmits

\* C2: with apiKey or webhookUrl missing, no request is ever dispatched and
\* isLoading never becomes true, and every submit sets the status to the
\* error with the configuration message.
C2_MissingConfig ==
  /\ [](apiKey = "" \/ webhookUrl = ""
          => nRequests = 0 /\ calls = {} /\ ~isLoading)
  /\ [][(apiKey = "" \/ webhookUrl = "") /\ nSubmits' # nSubmits
          => status' = [message |-> MsgConfig, type |-> "error"]]_vars

C2_Witness ==
  /\ apiKey # "" /\ webhookUrl = ""
  /\ nSubmits = 1
  /\ status = [message |-> MsgConfig, type |-> "error"]

\* C3: isLoading is never true without a request outstanding, every end of a
\* handleSubmit invocation (success, rejection, exception of the request,
\* exception of the body read) leaves isLoading false, and every
\* submission that entered Sending leaves it.
C3_SendingEnds ==
  /\ [](isLoading => calls # {})
  /\ [][Cardinality(calls') < Cardinality(calls) => ~isLoading']_vars
  /\ (isLoading ~> (~isLoading /\ submitEnabled /\ calls = {}))

\* the body read threw, and the form is interactive again
C3_Witness == lastOutcome = "textThrow" /\ ~isLoading /\ calls = {}

\* C4: at most one timer is pending, it is the one armed for the current
\* status and expires 5000 ms after that status was set, and a status is
\* cleared only when it is a success or an error that is 5000 ms old.
C4_NoStaleDismissal ==
  /\ [](/\ Cardinality(timers) <= 1
        /\ \A t \in timers : /\ t.id = effectTimer
                             /\ Terminal(status)
                             /\ t.remaining + statusAge = DismissMs)
  /\ [][status # NoStatus /\ status' = NoStatus
          => (status.type = "success" \/ status.type = "error")
             /\ statusAge = DismissMs]_vars

\* a second status superseded the first, whose timer had not fired yet
C4_Witness ==
  /\ timerSeq = 2
  /\ \E t \in timers : t.id = 2 /\ 0 < t.remaining /\ t.remaining < DismissMs

\* C5: a success or error status always has a timer that expires 5000 ms
\* after the status was set, and it is then cleared unless a new status
\* event came first.
C5_AutoDismiss ==
  /\ []((status.type = "success" \/ status.type = "error")
          => \E t \in timers : t.remaining = DismissMs - statusAge)
  /\ (((status.type = "success" \/ status.type = "error") /\ statusAge > 0)
        ~> statusAge = 0)

\* the only status event was a configuration error, and it was dismissed
C5_Witness ==
  /\ lastOutcome = "config" /\ nSubmits = 1
  /\ status = NoStatus /\ timers = {}

\* C6: the step that handles a success response sets the success status,
\* clears the displayed file name and the file input, and resets isLoading.
C6_SuccessEffects ==
  [][\A c \in calls :
       Succeeds(c) /\ c \notin calls'
         => /\ status' = [message |-> MsgSuccess, type |-> "success"]
            /\ fileName' = Null
            /\ fileInput' = ""
            /\ ~isLoading']_vars

C6_Witness ==
  /\ lastOutcome = "ok" /\ statusAge = 0
  /\ status = [message |-> MsgSuccess, type |-> "success"]
  /\ fileName = Null /\ fileInput = "" /\ ~isLoading

\* C7: the step that handles a success response resets the stepper's value
\* to defaultValue.
C7_CopiesReset ==
  [][\A c \in calls :
       Succeeds(c) /\ c \notin calls' => count' = Num(defaultValue)]_vars

\* C8: the copies text of every dispatched request is a decimal integer
\* that is at least min.
C8_CopiesAtLeastMin ==
  \A c \in calls :
    LET v == ToNumber(Str(c.formData.copies))
    IN v.t = "num" /\ v.n >= min

\* C9: the number of fetch calls always equals the number of submits that
\* passed the configuration check; only a submit dispatches a request, and
\* a validated submit dispatches exactly one.
C9_OneRequestPerSubmit ==
  /\ [](nRequests = nValidated)
  /\ [][nRequests' # nRequests
          => nSubmits' = nSubmits + 1 /\ nRequests' = nRequests + 1]_vars
  /\ [][nSubmits' # nSubmits /\ apiKey # "" /\ webhookUrl # ""
          => nRequests' = nRequests + 1]_vars

\* a request failed and nothing was sent again
C9_Witness ==
  /\ lastOutcome \in {"rejected", "fetchThrow", "textThrow"}
  /\ nRequests = 1 /\ calls = {} /\ status = NoStatus

\* C10: the step that handles a non-success response whose body was read
\* sets an error status whose message is "Error: " followed by the body
\* text when that is not empty, and by the fallback when it is.
C10_RejectionMessage ==
  [][\A c \in calls :
       c.pc = "awaitText" /\ c.net.read = "done" /\ c \notin calls'
         => /\ status'.type = "error"
            /\ c.net.body # "" => status'.message = "Error: " \o c.net.body
            /\ c.net.body = ""
                 => status'.message = "Error: Could not send print job."]_vars

C10_Witness ==
  /\ lastOutcome = "rejected"
  /\ status = [message |-> "Error: printer offline", type |-> "error"]

\* C11: the step in which handleSubmit takes a rejected fetch sets the error
\* status with the generic network-error message and resets isLoading.
C11_NetworkError ==
  [][\A c \in calls :
       c.pc = "awaitFetch" /\ c.net.kind = "error" /\ c \notin calls'
         => /\ status' = [message |-> MsgNetwork, type |-> "error"]
            /\ ~isLoading']_vars

C11_Witness ==
  /\ lastOutcome = "fetchThrow" /\ statusAge = 0
  /\ status.message = "Error: An unexpected network error occurred."
  /\ status.type = "error" /\ ~isLoading

\* the numeric value of a stepper state
ValueOf(v) == ToNumber(v).n

\* C12: after a decrement the stepper holds the number max(min, v - 1) for
\* the value v it held before (0 for the empty state), which is >= min.
C12_DecrementClamps ==
  lastOp = "decrement"
    => /\ count.t = "num"
       /\ count.n >= min
       /\ count.n = IF ValueOf(before) - 1 > min THEN ValueOf(before) - 1
                    ELSE min

\* a decrement from a typed value below min
C12_Witness == lastOp = "decrement" /\ before = Num(0 - 1) /\ count = Num(min)

\* C13: after n increments in a row from the number min the stepper holds
\* min + n.
C13_IncrementAddsOne == incRun >= 0 => count = Num(min + incRun)

\* ten increments in a row from min
C13_Witness == incRun = 10 /\ lastOp = "increment" /\ count = Num(min + 10)

\* C14: after a blur the stepper holds min when it was empty or below min
\* before, and what it held before otherwise.
C14_BlurCoerces ==
  lastOp = "blur"
    => IF before = Str(<<>>) \/ ValueOf(before) < min
         THEN count = Num(min)
         ELSE count = before

\* the field was cleared and then left
C14_Witness == lastOp = "blur" /\ before = Str(<<>>) /\ count = Num(min)

LastEvent == fileTrace[Len(fileTrace)]

\* C15: after the explicit clear there is no file name and the input is
\* empty; after a selection of file f, whatever came before, the name and
\* the input are f; after a selection with zero files there is no name.
C15_FileBookkeeping ==
  fileTrace # <<>>
    => /\ LastEvent = "remove" => fileName = Null /\ fileInput = ""
       /\ LastEvent \in Files => fileName = LastEvent /\ fileInput = LastEvent
       /\ LastEvent = "cancel" => fileName = Null

\* a file is selected, cleared and selected again
C15_Witness ==
  /\ fileTrace = <<"a.pdf", "remove", "a.pdf">>
  /\ fileName = "a.pdf" /\ fileInput = "a.pdf"

\* C16: isLoading is true exactly when a request of the form is in flight.
C16_LoadingIffInFlight == isLoading <=> calls # {}

\* a request resolved and the form is idle again
C16_Witness == nRequests = 1 /\ lastOutcome = "ok" /\ ~isLoading /\ calls = {}

\* C17: while a request is in flight the status is its info status and no
\* timer is pending, and an info status is only ever replaced by the
\* success or error status that ends its request.
C17_InfoUntilTerminal ==
  /\ [](calls # {}
          => status = [message |-> MsgInfo, type |-> "info"] /\ timers = {})
  /\ [][status.type = "info" /\ status' # status
          => /\ status'.type = "success" \/ status'.type = "error"
             /\ Cardinality(calls') < Cardinality(calls)]_vars

\* an info status that outlived the dismiss delay, after an earlier
\* terminal status had armed a timer
C17_Witness ==
  /\ status.type = "info" /\ statusAge = DismissMs
  /\ timerSeq = 1 /\ nSubmits = 2 /\ calls # {}

\* handleSubmit resumes for call c in this step
Resumes(c) == c.pc = "awaitFetch" /\ c.net.kind # "pending" /\ c \notin calls'

\* the classification of a settled fetch, with success for the statuses
\* from 200 up to last: success exactly for those, and an error status at
\* the end of every other invocation
Classified(last) ==
  /\ \A c \in calls :
       Resumes(c)
         => LET inRange == /\ c.net.kind = "response"
                           /\ 200 <= c.net.status /\ c.net.status <= last
            IN /\ inRange <=> status'.type = "success"
               /\ inRange => calls' = calls \ {c}
               /\ ~inRange /\ calls' = calls \ {c} => status'.type = "error"
  /\ \A c \in calls :
       c.pc = "awaitText" /\ calls' = calls \ {c} => status'.type = "error"

\* C18 as stated: success exactly for a status in [200,299).
C18_HalfOpenRange == [][Classified(298)]_vars

\* C18 amended: a resolved request is Succeeded exactly when the response
\* status is in the closed range 200..299, and Failed for every other
\* status and for every transport failure.
C18_ClosedRange == [][Classified(299)]_vars

\* a response with status 299 ended as a success
C18_Witness ==
  lastStatus = 299 /\ lastOutcome = "ok" /\ status.type = "success"

\* C19: the stepper's text is empty or a decimal integer, and an increment
\* from a state that is not empty raises its value by exactly 1.
C19_IntegerSteps ==
  /\ count = Str(<<>>) \/ ToNumber(count).t = "num"
  /\ lastOp = "increment" /\ before # Str(<<>>)
       => ValueOf(count) = ValueOf(before) + 1

\* C20: a step that sets an error status (configuration error, non-2xx
\* response, thrown error) leaves the copies value, the file name and the
\* file input as they were.
C20_FailureKeepsInputs ==
  [][status'.type = "error" /\ timerSeq' # timerSeq
       => count' = count /\ fileName' = fileName /\ fileInput' = fileInput]_vars

\* a rejected submission, with the file and the copies still in the form
C20_Witness ==
  /\ lastOutcome = "rejected" /\ statusAge = 0 /\ status.type = "error"
  /\ fileName = "a.pdf" /\ fileInput = "a.pdf" /\ count = Num(2)

\* C21: the displayed file name is present exactly when the file input
\* holds a file, and it is then the name of that file.
C21_NameMatchesInput ==
  /\ fileName = Null <=> fileInput = ""
  /\ fileName # Null => fileName = fileInput

\* a file selected again after a submission that succeeded and cleared the
\* form
C21_Witness ==
  /\ lastOutcome = "ok" /\ nSubmits = 1
  /\ fileName = "b.pdf" /\ fileInput = "b.pdf"

====
